---- MODULE Spec2Model ----
(***************************************************************************)
(* Model of src/main.py: a mini CRM that stores operators, sources,        *)
(* operator-source links (weights), leads and appeals in SQLite and        *)
(* routes every new appeal to an operator by a weighted random draw.       *)
(*                                                                         *)
(* Tables are sequences; a row's id is its index (SQLite hands out         *)
(* rowid = max + 1 and no endpoint deletes a row).  NULL is 0, which no    *)
(* row id equals.  Columns that no decision reads (names, the timestamp,   *)
(* the message) are left out.                                              *)
(***************************************************************************)
EXTENDS Integers, Sequences, FiniteSets

VARIABLES operators, sources, operator_sources, leads, appeals,
          pc, local, response

vars == <<operators, sources, operator_sources, leads, appeals,
          pc, local, response>>

db == <<operators, sources, operator_sources, leads, appeals>>

\* ---------------------------------------------------------------- bounds

MaxOperators == 2
MaxSources == 1
MaxLinks == 2
MaxAppeals == 2
MaxLoadArg == 1
MaxWeight == 1
NumProcs == 2

NULL == 0

OperatorIds == 1..MaxOperators
\* source ids a request may carry: one more than can exist, so one is unknown
SourceIds == 1..(MaxSources + 1)
MaxLoads == 0..MaxLoadArg
Weights == 0..MaxWeight
\* the external ids a request may carry
ExternalIds == {"a"}
Procs == 1..NumProcs

Range(s) == {s[i] : i \in DOMAIN s}

\* ------------------------------------------------------- pure helpers

\* db.query(Lead).filter(Lead.external_id == ext).first(): the id or NULL.
FindLead(ls, ext) ==
    IF \E i \in DOMAIN ls : ls[i] = ext
    THEN CHOOSE i \in DOMAIN ls : ls[i] = ext /\ \A j \in 1..(i - 1) : ls[j] # ext
    ELSE NULL

\* The unique index on tbl_leads.external_id: an insert of a second row with
\* the same external_id fails with IntegrityError.
LeadInsertUnchecked(ls, ext) == TRUE
LeadInsertAllowed(ls, ext) == \A i \in DOMAIN ls : ls[i] # ext

\* count(Appeal.id) grouped by operator_id: the row of the subquery for o.
Load(apps, o) == Cardinality({i \in DOMAIN apps : apps[i].operator_id = o})

\* (subquery.c.load < Operator.max_load) | (subquery.c.load.is_(None)):
\* an operator without appeals has no row in the subquery, so its load is
\* NULL after the outer join and the second disjunct admits it.
UnderCapacity(apps, max_load, o) ==
    \/ Load(apps, o) = 0
    \/ Load(apps, o) < max_load

\* The candidates query: one row (operator id, weight) per link of the
\* source whose operator exists, is active and is under capacity.  SQLite
\* scans tbl_operator_sources and looks the operator up by primary key, so
\* the rows come in link-id order.
Candidates(ops, links, apps, src) ==
    LET Eligible(l) ==
            /\ l.source_id = src
            /\ l.operator_id \in DOMAIN ops
            /\ ops[l.operator_id].is_active
            /\ UnderCapacity(apps, ops[l.operator_id].max_load, l.operator_id)
        rows == SelectSeq(links, Eligible)
    IN  [i \in DOMAIN rows |-> <<rows[i].operator_id, rows[i].weight>>]

\* [(op.id, w) for op, w in candidates if w > 0]
Positive(cands) ==
    LET Pos(c) == c[2] > 0
    IN  SelectSeq(cands, Pos)

\* tuple.index(x): the first position holding x.
IndexOf(t, x) == CHOOSE i \in DOMAIN t : t[i] = x /\ \A j \in 1..(i - 1) : t[j] # x

\* zip(*[...]) of an empty list yields nothing to unpack into
\* (operators, weights): ValueError.  Guarded only by `if candidates`.
DrawRaisesUnguarded(cands) == Positive(cands) = <<>>
DrawRaises(cands) == cands # <<>> /\ Positive(cands) = <<>>

\* The operator ids the draw can produce.  random.choices returns one of the
\* weights (each is positive, so each can come out); the operator is the one
\* at the first position of that weight.
DrawOutcomes(cands) ==
    IF cands = <<>> THEN {NULL}
    ELSE LET pos == Positive(cands)
             ops == [i \in DOMAIN pos |-> pos[i][1]]
             weights == [i \in DOMAIN pos |-> pos[i][2]]
         IN  {ops[IndexOf(weights, w)] : w \in Range(weights)}

\* db.add(db_appeal); db.commit(): a new row at the end of tbl_appeals.
\* (InsertAppealMerge: the row is merged into the lead's earlier appeal from
\* the same source, when there is one, instead of being added.)
InsertAppealMerge(apps, row) ==
    LET Same(i) == apps[i].lead_id = row.lead_id /\ apps[i].source_id = row.source_id
    IN  IF \E i \in DOMAIN apps : Same(i)
        THEN [apps EXCEPT ![CHOOSE i \in DOMAIN apps : Same(i)] = row]
        ELSE Append(apps, row)
InsertAppeal(apps, row) == Append(apps, row)

\* What the step just taken sent back for a POST /appeals/ request, when it
\* finished one: 200 with the new appeal's id, or 500 with the exception
\* that escaped the handler.  Any other step leaves NoResponse.
Resp(status, detail, id) == [status |-> status, detail |-> detail, id |-> id]
NoResponse == Resp(0, "", NULL)

\* A worker's local variables: create_appeal's appeal.external_id,
\* appeal.source_id, db_lead.id and operator_id; update_operator's operator_id
\* and the attributes of db_operator that its session holds as changed.
Idle == [external_id |-> "", source_id |-> NULL, db_lead |-> NULL,
         operator_id |-> NULL, dirty |-> <<>>]

\* ------------------------------------------------------------ initial

Init ==
    /\ operators = <<>>
    /\ sources = 0
    /\ operator_sources = <<>>
    /\ leads = <<>>
    /\ appeals = <<>>
    /\ pc = [p \in Procs |-> "idle"]
    /\ local = [p \in Procs |-> Idle]
    /\ response = NoResponse

\* ------------------------------------------------- administrative calls

create_operator(is_active, max_load) ==
    /\ Len(operators) < MaxOperators
    /\ operators' = Append(operators, [is_active |-> is_active, max_load |-> max_load])
    /\ response' = NoResponse
    /\ UNCHANGED <<sources, operator_sources, leads, appeals, pc, local>>

\* operator.model_dump(exclude_unset=True): the fields the request set, a
\* function from a subset of {"is_active", "max_load"}.
UpdateData ==
    UNION {[{"is_active"} -> BOOLEAN], [{"max_load"} -> MaxLoads], {<<>>},
           {[is_active |-> a, max_load |-> m] : a \in BOOLEAN, m \in MaxLoads}}

\* setattr(db_operator, key, value) for each field of update_data: the
\* session records an attribute as changed when the value set differs from
\* the value loaded, and only those attributes go into the UPDATE.
Dirty(db_operator, update_data) ==
    [key \in {k \in DOMAIN update_data : update_data[k] # db_operator[k]} |->
        update_data[key]]

\* The UPDATE of the row: the changed attributes are written, every other
\* column keeps the value the table holds.
UpdateRow(ops, operator_id, dirty) ==
    [ops EXCEPT ![operator_id] =
        [key \in DOMAIN @ |-> IF key \in DOMAIN dirty THEN dirty[key] ELSE @[key]]]

create_source ==
    /\ sources < MaxSources
    /\ sources' = sources + 1
    /\ response' = NoResponse
    /\ UNCHANGED <<operators, operator_sources, leads, appeals, pc, local>>

\* No check that the operator or the source exists (SQLite does not enforce
\* the foreign keys).
create_operator_source(operator_id, source_id, weight) ==
    /\ Len(operator_sources) < MaxLinks
    /\ operator_sources' = Append(operator_sources,
           [operator_id |-> operator_id, source_id |-> source_id, weight |-> weight])
    /\ response' = NoResponse
    /\ UNCHANGED <<operators, sources, leads, appeals, pc, local>>

\* ------------------------ update_operator as the steps of one request

\* The request arrives, goes to the first free worker, and the handler loads
\* the operator (404 when there is none) and sets the attributes.  Nothing is
\* written yet, and the SELECT leaves no lock behind.
update_operator(p, operator_id, update_data) ==
    /\ pc[p] = "idle"
    /\ \A q \in 1..(p - 1) : pc[q] # "idle"
    /\ IF operator_id \notin DOMAIN operators
       THEN UNCHANGED <<pc, local>>
       ELSE /\ pc' = [pc EXCEPT ![p] = "commit"]
            /\ local' = [local EXCEPT ![p] =
                   [Idle EXCEPT !.operator_id = operator_id,
                                !.dirty = Dirty(operators[operator_id], update_data)]]
    /\ response' = NoResponse
    /\ UNCHANGED db

\* db.commit(); db.refresh(db_operator); return db_operator
commit_operator(p) ==
    /\ pc[p] = "commit"
    /\ operators' = UpdateRow(operators, local[p].operator_id, local[p].dirty)
    /\ pc' = [pc EXCEPT ![p] = "idle"]
    /\ local' = [local EXCEPT ![p] = Idle]
    /\ response' = NoResponse
    /\ UNCHANGED <<sources, operator_sources, leads, appeals>>

\* ------------------------- create_appeal as the steps of one request

\* The create_appeal calls in flight.
InFlight == Cardinality({p \in Procs : pc[p] \in {"add_lead", "select", "insert"}})

\* The request arrives, goes to the first free worker, and the handler looks
\* the lead up.
find_lead(p, external_id, source_id) ==
    /\ pc[p] = "idle"
    /\ \A q \in 1..(p - 1) : pc[q] # "idle"
    /\ Len(appeals) + InFlight < MaxAppeals
    /\ LET found == FindLead(leads, external_id)
       IN  /\ pc' = [pc EXCEPT ![p] = IF found = NULL THEN "add_lead" ELSE "select"]
           /\ local' = [local EXCEPT ![p] =
                  [Idle EXCEPT !.external_id = external_id,
                               !.source_id = source_id, !.db_lead = found]]
    /\ response' = NoResponse
    /\ UNCHANGED db

\* db.add(db_lead); db.commit(); db.refresh(db_lead)
add_lead(p) ==
    /\ pc[p] = "add_lead"
    /\ IF LeadInsertAllowed(leads, local[p].external_id)
       THEN /\ leads' = Append(leads, local[p].external_id)
            /\ pc' = [pc EXCEPT ![p] = "select"]
            /\ local' = [local EXCEPT ![p].db_lead = Len(leads) + 1]
            /\ response' = NoResponse
       ELSE /\ leads' = leads
            /\ pc' = [pc EXCEPT ![p] = "idle"]
            /\ local' = [local EXCEPT ![p] = Idle]
            /\ response' = Resp(500, "IntegrityError", NULL)
    /\ UNCHANGED <<operators, sources, operator_sources, appeals>>

\* The candidates query and the draw on its result.
select_operator(p) ==
    /\ pc[p] = "select"
    /\ LET candidates == Candidates(operators, operator_sources, appeals,
                                    local[p].source_id)
       IN  IF DrawRaises(candidates)
           THEN /\ pc' = [pc EXCEPT ![p] = "idle"]
                /\ local' = [local EXCEPT ![p] = Idle]
                /\ response' = Resp(500, "ValueError", NULL)
           ELSE \E operator_id \in DrawOutcomes(candidates) :
                /\ pc' = [pc EXCEPT ![p] = "insert"]
                /\ local' = [local EXCEPT ![p].operator_id = operator_id]
                /\ response' = NoResponse
    /\ UNCHANGED db

\* db.add(db_appeal); db.commit(); db.refresh(db_appeal); return db_appeal
insert_appeal(p) ==
    /\ pc[p] = "insert"
    /\ appeals' = InsertAppeal(appeals,
           [lead_id |-> local[p].db_lead, source_id |-> local[p].source_id,
            operator_id |-> local[p].operator_id])
    /\ response' = Resp(200, "", Len(appeals) + 1)
    /\ pc' = [pc EXCEPT ![p] = "idle"]
    /\ local' = [local EXCEPT ![p] = Idle]
    /\ UNCHANGED <<operators, sources, operator_sources, leads>>


\* The requests that start and end in one step.
Admin ==
    \/ \E a \in BOOLEAN, m \in MaxLoads : create_operator(a, m)
    \/ create_source
    \/ \E o \in OperatorIds, s \in 1..MaxSources, w \in Weights : create_operator_source(o, s, w)

\* The steps of a request that has started.
Handler(p) ==
    \/ commit_operator(p)
    \/ add_lead(p)
    \/ select_operator(p)
    \/ insert_appeal(p)

Next ==
    \/ Admin
    \/ \E p \in Procs :
        \/ \E o \in OperatorIds, d \in UpdateData : update_operator(p, o, d)
        \/ \E e \in ExternalIds, s \in SourceIds : find_lead(p, e, s)
        \/ Handler(p)

Spec == Init /\ [][Next]_vars

\* The concurrent program with max_load never updated: update_operator
\* requests set is_active only.
FixedLoadNext ==
    \/ Admin
    \/ \E p \in Procs :
        \/ \E o \in OperatorIds, d \in [{"is_active"} -> BOOLEAN] : update_operator(p, o, d)
        \/ \E e \in ExternalIds, s \in SourceIds : find_lead(p, e, s)
        \/ Handler(p)

FixedLoadSpec == Init /\ [][FixedLoadNext]_vars

\* What the server's scheduling gives: a handler that has started runs on to
\* its end.  PATCH requests keep being served; whether further requests of
\* the other kinds arrive is left open.
FairSpec ==
    /\ Spec
    /\ WF_vars(\E p \in Procs, o \in OperatorIds, d \in UpdateData : update_operator(p, o, d))
    /\ \A p \in Procs : WF_vars(Handler(p))

\* ---------------------------------------------------------------- claims

CandidatesNow(src) == Candidates(operators, operator_sources, appeals, src)
AllZeroWeight(cands) == cands # <<>> /\ \A i \in DOMAIN cands : cands[i][2] = 0
LastAppeal == appeals'[Len(appeals')]
OneAppealAdded == Len(appeals') = Len(appeals) + 1 /\ SubSeq(appeals', 1, Len(appeals)) = appeals

\* The steps of request p, read off a pair of states.
Selects(p) == pc[p] = "select" /\ pc'[p] # "select"
Inserts(p) == pc[p] = "insert" /\ pc'[p] # "insert"
Finishes(p) == pc[p] # "idle" /\ pc'[p] = "idle"

\* Data the spec calls valid: links join existing operators and sources, and
\* every max_load is positive.  C2, C3 and C6 are stated on such data (and C1
\* and C7 for positive max_load), so that what refutes them rests on nothing
\* but the code path the claim is about.
WellFormed ==
    /\ \A o \in DOMAIN operators : operators[o].max_load >= 1
    /\ \A i \in DOMAIN operator_sources :
           /\ operator_sources[i].operator_id \in DOMAIN operators
           /\ operator_sources[i].source_id \in 1..sources

\* C1: with max_load never updated, under any interleaving of the steps of
\* concurrent create_appeal calls, no operator (of positive max_load) has more
\* appeals attributed to it than its max_load.
C1_LoadWithinMaxLoad ==
    \A o \in DOMAIN operators :
        operators[o].max_load >= 1 => Load(appeals, o) <= operators[o].max_load

\* C2: a create_appeal call whose candidate query returns rows that all have
\* weight 0 does not raise: it goes on to store its appeal, with operator_id
\* NULL.
C2_ZeroWeightUnassigned ==
    [][\A p \in Procs :
        (WellFormed /\ Selects(p) /\ AllZeroWeight(CandidatesNow(local[p].source_id)))
            => /\ pc'[p] = "insert"
               /\ local'[p].operator_id = NULL
               /\ response'.status # 500]_vars

\* C3: whenever some candidate of a source has positive weight, the results
\* the draw can give are exactly the candidates of positive weight.
C3_DrawReachesEveryPositive ==
    \A s \in SourceIds :
        LET pos == Positive(CandidatesNow(s))
        IN  (WellFormed /\ pos # <<>>) => DrawOutcomes(CandidatesNow(s)) = {pos[i][1] : i \in DOMAIN pos}

\* C4: with no other create_appeal call in flight, the operator a call selects
\* was, in the state its candidate query read, active, linked to the call's
\* source with positive weight, and had fewer appeals than its max_load.
C4_SelectedWasEligible ==
    [][\A p \in Procs :
        (InFlight = 1 /\ Selects(p) /\ pc'[p] = "insert" /\ local'[p].operator_id # NULL)
            => LET o == local'[p].operator_id
               IN  /\ o \in DOMAIN operators
                   /\ operators[o].is_active
                   /\ \E i \in DOMAIN operator_sources :
                          /\ operator_sources[i].operator_id = o
                          /\ operator_sources[i].source_id = local[p].source_id
                          /\ operator_sources[i].weight > 0
                   /\ Load(appeals, o) < operators[o].max_load]_vars

\* C5: a create_appeal call whose candidate query returns no row raises
\* nothing and goes on with operator_id NULL, and the insert that ends a call
\* adds exactly one appeal, with the call's lead, source and operator_id, and
\* returns it with status 200.
C5_EmptyCandidatesUnassigned ==
    [][\A p \in Procs :
        /\ (Selects(p) /\ CandidatesNow(local[p].source_id) = <<>>)
               => /\ pc'[p] = "insert"
                  /\ local'[p].operator_id = NULL
                  /\ response' = NoResponse
                  /\ db' = db
        /\ Inserts(p)
               => /\ OneAppealAdded
                  /\ LastAppeal = [lead_id |-> local[p].db_lead,
                                   source_id |-> local[p].source_id,
                                   operator_id |-> local[p].operator_id]
                  /\ response' = Resp(200, "", Len(appeals) + 1)]_vars

\* C5 witness: the call just answered created an unassigned appeal for a
\* source id that no source and no link carries.
C5_Witness ==
    /\ response.status = 200
    /\ appeals[response.id].operator_id = NULL
    /\ appeals[response.id].source_id > sources
    /\ \A i \in DOMAIN operator_sources :
           operator_sources[i].source_id # appeals[response.id].source_id
    /\ operators # <<>>

\* C6: a create_appeal call that ends with no other call in flight leaves
\* exactly one lead with its external_id and has added one new appeal that
\* references that lead (so two calls with the same external_id leave one
\* lead and add two appeals of that lead).
C6_OneLeadOneAppealPerCall ==
    [][\A p \in Procs :
        (WellFormed /\ InFlight = 1 /\ local[p].source_id \in 1..sources /\ Finishes(p))
            => /\ Cardinality({i \in DOMAIN leads' : leads'[i] = local[p].external_id}) = 1
               /\ OneAppealAdded
               /\ LastAppeal.lead_id = FindLead(leads', local[p].external_id)]_vars

SaturatedAt(o, m) ==
    IF o \in DOMAIN operators
    THEN operators[o].max_load = m /\ Load(appeals, o) = m
    ELSE FALSE
ReleasedFrom(o, m) ==
    IF o \in DOMAIN operators
    THEN operators[o].max_load # m \/ Load(appeals, o) < m
    ELSE FALSE

\* C7: an operator whose load has reached its (positive) max_load does not
\* stay so for ever while max_load stays the same: its load comes back under
\* max_load.
C7_SaturatedBecomesEligible ==
    \A o \in OperatorIds, m \in 1..MaxLoadArg :
        SaturatedAt(o, m) ~> ReleasedFrom(o, m)

\* C8: no step changes a row of tbl_appeals that exists: lead_id, source_id
\* and operator_id stay as created.
C8_AppealsImmutable ==
    [][\A i \in DOMAIN appeals : i \in DOMAIN appeals' /\ appeals'[i] = appeals[i]]_vars

\* C8 witness: an appeal is still attributed to an operator that has since
\* been deactivated and whose max_load has been set below its load.
C8_Witness ==
    \E i \in DOMAIN appeals :
        /\ appeals[i].operator_id # NULL
        /\ ~operators[appeals[i].operator_id].is_active
        /\ operators[appeals[i].operator_id].max_load = 0

\* C9: every appeal references an existing lead and an existing source.
C9_AppealReferencesExist ==
    \A i \in DOMAIN appeals :
        /\ appeals[i].lead_id \in DOMAIN leads
        /\ appeals[i].source_id \in 1..sources

\* C10: no two leads share an external_id.
C10_LeadExternalIdUnique ==
    \A i, j \in DOMAIN leads : leads[i] = leads[j] => i = j

\* C10 witness: two calls both found no lead for the same external_id; one
\* inserted it and the other's insert has just failed on the unique index.
C10_Witness ==
    /\ response = Resp(500, "IntegrityError", NULL)
    /\ leads # <<>>

====
